---------------------------- MODULE Spec2Model ----------------------------
(***************************************************************************)
(* Binary (CBOR) codec of the proteus key types:                           *)
(*   src/src/internal/keys/binary.rs                                       *)
(*                                                                         *)
(* The stream is a sequence of CBOR data items (array header, unsigned     *)
(* integer, byte string), which is the granularity at which the code uses  *)
(* cbor::Encoder and cbor::Decoder.  A Decoder is a cursor over such a     *)
(* stream; an Encoder appends to one and fails once the sink is full.      *)
(* Every enc_* / dec_* function of the file is an operator that threads    *)
(* the encoder / decoder through its steps exactly as try! does.           *)
(***************************************************************************)
EXTENDS Integers, Sequences, FiniteSets, TLC

(***************************************************************************)
(* Bounds of the model.                                                    *)
(***************************************************************************)
\* capacity of the sink the encoders write to, in data items
MaxWire == 5
\* number of field items that may follow the header of a received stream
MaxFields == 3
\* number of values encoded onto one stream
MaxVals == 2

(***************************************************************************)
(* Program constants.                                                      *)
(***************************************************************************)
\* Bytes64: width of an Ed25519 secret key
SecretKeyBytes == 64
\* Bytes32: width of an Ed25519 public key
PublicKeyBytes == 32
\* ecdh::SCALARBYTES, width of a Curve25519 scalar
ScalarBytes == 32
\* the tag of Version::V1
V1Tag == 1
\* number of items in a version 1 IdentityKeyPair
IdentityKeyPairLen == 3
\* number of items in a version 1 PreKey
PreKeyLen == 3
\* number of items in a version 1 PreKeyBundle
PreKeyBundleLen == 4
\* d.u16() accepts an unsigned integer below 2^16
U16Limit == 65536

(***************************************************************************)
(* State.                                                                  *)
(*   wire     the stream: what the encoders wrote, or what was received    *)
(*   pos      the decoder's position in it (the next item)                 *)
(*   written  the encode calls that returned Ok: type, value, items taken  *)
(*   last     the last decode call: which decoder, where in the stream it  *)
(*            started and ended, the reads it made, what it returned, and  *)
(*            whether it was handed the items the call before it, by the   *)
(*            same decoder, had looked at                                  *)
(* The stream is written first and read afterwards, as in util::roundtrip: *)
(* a Decoder borrows the buffer it reads, so nothing is written to it once *)
(* a Decoder has been opened.                                              *)
(***************************************************************************)
VARIABLES wire, pos, written, last

vars == <<wire, pos, written, last>>

(***************************************************************************)
(* CBOR data items.                                                        *)
(***************************************************************************)
ArrayItem(n) == [t |-> "array", n |-> n, b |-> <<>>]
UIntItem(v)  == [t |-> "uint",  n |-> v, b |-> <<>>]
BytesItem(b) == [t |-> "bytes", n |-> Len(b), b |-> b]

(***************************************************************************)
(* Results.  A DecodeResult carries the decoder as the call left it; an    *)
(* EncodeResult carries the encoder.                                       *)
(***************************************************************************)
NoObj == [none |-> TRUE]
NoErr == [kind |-> "none", arg |-> <<>>]

Ok(v, d)     == [ok |-> TRUE,  val |-> v,     err |-> NoErr, d |-> d]
Err(k, a, d) == [ok |-> FALSE, val |-> NoObj, err |-> [kind |-> k, arg |-> a], d |-> d]
Raise(r)     == [ok |-> FALSE, val |-> NoObj, err |-> r.err, d |-> r.d]

EOk(e)       == [ok |-> TRUE,  err |-> NoErr, e |-> e]
EErr(k, e)   == [ok |-> FALSE, err |-> [kind |-> k, arg |-> <<>>], e |-> e]

\* let x = try!(r0); K(x)  on a DecodeResult: a failed step's error is
\* returned as it is and K is not run.
Try(r0, K(_)) ==
    CHOOSE out \in {IF r.ok THEN K(r) ELSE Raise(r) : r \in {r0}} : TRUE

\* r0.map(|v| F(v))
Map(r0, F(_)) ==
    CHOOSE out \in {IF r.ok THEN Ok(F(r.val), r.d) ELSE Raise(r) : r \in {r0}} : TRUE

\* try!(r0); K  on an EncodeResult
ETry(r0, K(_)) ==
    CHOOSE out \in {IF r.ok THEN K(r.e) ELSE r : r \in {r0}} : TRUE

(***************************************************************************)
(* cbor::Encoder<W>: e.out is what has been written, e.room the number of  *)
(* items the sink still accepts.                                           *)
(***************************************************************************)
Encoder(out, room) == [out |-> out, room |-> room]

Emit(e, item) ==
    IF e.room = 0
    THEN EErr("Io", e)
    ELSE EOk([out |-> Append(e.out, item), room |-> e.room - 1])

e_array(e, n) == Emit(e, ArrayItem(n))
e_u16(e, v)   == Emit(e, UIntItem(v))
e_bytes(e, b) == Emit(e, BytesItem(b))

(***************************************************************************)
(* cbor::Decoder<R>: d.in is the stream, d.pos the next item, d.trace the  *)
(* reads performed so far.                                                 *)
(***************************************************************************)
Decoder(in, at) == [in |-> in, pos |-> at, trace |-> <<>>]

Step(d, name, adv) ==
    [in |-> d.in, pos |-> d.pos + adv, trace |-> Append(d.trace, name)]

\* One typed read: the item's header is consumed, then its type is matched.
ReadItem(d, name, type) ==
    IF d.pos > Len(d.in)
    THEN Err("UnexpectedEOF", <<>>, Step(d, name, 0))
    ELSE IF d.in[d.pos].t # type
         THEN Err("UnexpectedType", <<>>, Step(d, name, 1))
         ELSE Ok(d.in[d.pos], Step(d, name, 1))

d_array(d) == Map(ReadItem(d, "array", "array"), LAMBDA i : i.n)

d_u16(d) ==
    Try(ReadItem(d, "u16", "uint"), LAMBDA r :
        IF r.val.n >= U16Limit
        THEN Err("UnexpectedType", <<>>, r.d)
        ELSE Ok(r.val.n, r.d))

d_bytes(d) == Map(ReadItem(d, "bytes", "bytes"), LAMBDA i : i.b)

(***************************************************************************)
(* internal::util::Bytes64 / Bytes32: a byte string of exactly that width. *)
(***************************************************************************)
BytesN_decode(d, width) ==
    Try(d_bytes(d), LAMBDA r :
        IF Len(r.val) # width
        THEN Err("InvalidLength", <<width, Len(r.val)>>, r.d)
        ELSE Ok(r.val, r.d))

Bytes64_decode(d) == BytesN_decode(d, SecretKeyBytes)
Bytes32_decode(d) == BytesN_decode(d, PublicKeyBytes)

(***************************************************************************)
(* The conversions between the signing and the key-agreement key spaces.   *)
(* The scalar is the clamped digest of the seed (the first half of the     *)
(* signing secret); the group element is a function of the y coordinate,   *)
(* that is of the public key without its sign bit.  Digest and birational  *)
(* map are byte-wise stand-ins.                                            *)
(***************************************************************************)
Digest(b) == (b * 5 + 1) % 256
Mont(b)   == 255 - b

from_ed25519_sk(ed) ==
    [i \in 1..ScalarBytes |->
        IF i = 1 THEN Digest(ed[i]) - (Digest(ed[i]) % 8)
        ELSE IF i = ScalarBytes THEN (Digest(ed[i]) % 64) + 64
        ELSE Digest(ed[i])]

from_ed25519_pk(ed) ==
    [i \in 1..PublicKeyBytes |->
        IF i = PublicKeyBytes THEN Mont(ed[i] % 128) ELSE Mont(ed[i])]

(***************************************************************************)
(* SecretKey                                                               *)
(***************************************************************************)
enc_secret_key(k, e) == e_bytes(e, k.sec_edward)

\* mutant: the key is read as a 32-byte string
dec_secret_key_w32(d) ==
    Map(Bytes32_decode(d), LAMBDA v :
        [sec_edward |-> v, sec_curve |-> from_ed25519_sk(v)])

\* mutant: the scalar buffer is not cleared between calls, the conversion
\* adds into what the call before left there
dec_secret_key_accum(d) ==
    Map(Bytes64_decode(d), LAMBDA v :
        [sec_edward |-> v,
         sec_curve  |-> IF last.op = "dec" /\ last.ok /\ last.ty = "SecretKey"
                        THEN [i \in 1..ScalarBytes |->
                                (from_ed25519_sk(v)[i] + last.val.sec_curve[i]) % 256]
                        ELSE from_ed25519_sk(v)])

dec_secret_key(d) ==
    Map(Bytes64_decode(d), LAMBDA v :
        [sec_edward |-> v, sec_curve |-> from_ed25519_sk(v)])

(***************************************************************************)
(* PublicKey                                                               *)
(***************************************************************************)
enc_public_key(k, e) == e_bytes(e, k.pub_edward)

\* mutant: the group element is a copy of the signing key
dec_public_key_copy(d) ==
    Map(Bytes32_decode(d), LAMBDA v : [pub_edward |-> v, pub_curve |-> v])

dec_public_key(d) ==
    Map(Bytes32_decode(d), LAMBDA v :
        [pub_edward |-> v, pub_curve |-> from_ed25519_pk(v)])

(***************************************************************************)
(* IdentityKey                                                             *)
(***************************************************************************)
enc_identity_key(k, e) == enc_public_key(k.public_key, e)

dec_identity_key(d) == Map(dec_public_key(d), LAMBDA k : [public_key |-> k])

(***************************************************************************)
(* Version                                                                 *)
(***************************************************************************)
enc_version(v, e) == CASE v = "V1" -> e_u16(e, V1Tag)

dec_version(d) ==
    Try(d_u16(d), LAMBDA r :
        IF r.val = V1Tag
        THEN Ok("V1", r.d)
        ELSE Err("InvalidVersion", <<r.val>>, r.d))

(***************************************************************************)
(* PreKeyId                                                                *)
(***************************************************************************)
enc_prekey_id(k, e) == e_u16(e, k.id)

dec_prekey_id(d) == Map(d_u16(d), LAMBDA v : [id |-> v])

(***************************************************************************)
(* KeyPair                                                                 *)
(***************************************************************************)
\* mutant: public key first
enc_keypair_swapped(k, e) ==
    ETry(enc_public_key(k.public_key, e), LAMBDA e1 :
    enc_secret_key(k.secret_key, e1))

enc_keypair(k, e) ==
    ETry(enc_secret_key(k.secret_key, e), LAMBDA e1 :
    enc_public_key(k.public_key, e1))

\* mutant: the public key is read before the secret key's error is returned
dec_keypair_late(d) ==
    CHOOSE out \in
        {IF s.ok
         THEN Try(dec_public_key(s.d), LAMBDA p :
                  Ok([secret_key |-> s.val, public_key |-> p.val], p.d))
         ELSE [ok |-> FALSE, val |-> NoObj, err |-> s.err,
               d |-> dec_public_key(s.d).d]
            : s \in {dec_secret_key(d)}} : TRUE

dec_keypair(d) ==
    Try(dec_secret_key(d), LAMBDA s :
    Try(dec_public_key(s.d), LAMBDA p :
    Ok([secret_key |-> s.val, public_key |-> p.val], p.d)))

(***************************************************************************)
(* IdentityKeyPair                                                         *)
(***************************************************************************)
enc_identity_keypair(k, e) ==
    CASE k.version = "V1" ->
        ETry(e_array(e, IdentityKeyPairLen), LAMBDA e1 :
        ETry(enc_version(k.version, e1), LAMBDA e2 :
        ETry(enc_secret_key(k.secret_key, e2), LAMBDA e3 :
        enc_identity_key(k.public_key, e3))))

\* mutant: the array length is checked before the version is read
dec_identity_keypair_lenfirst(d) ==
    Try(d_array(d), LAMBDA n :
    IF n.val # IdentityKeyPairLen
    THEN Err("InvalidArrayLen", <<n.val>>, n.d)
    ELSE Try(dec_version(n.d), LAMBDA v :
         Try(dec_secret_key(v.d), LAMBDA sk :
         Try(dec_identity_key(sk.d), LAMBDA pk :
         Ok([version    |-> v.val,
             secret_key |-> sk.val,
             public_key |-> pk.val], pk.d)))))

dec_identity_keypair(d) ==
    Try(d_array(d), LAMBDA n :
    Try(dec_version(n.d), LAMBDA v :
    CASE v.val = "V1" ->
        IF n.val # IdentityKeyPairLen
        THEN Err("InvalidArrayLen", <<n.val>>, v.d)
        ELSE Try(dec_secret_key(v.d), LAMBDA sk :
             Try(dec_identity_key(sk.d), LAMBDA pk :
             Ok([version    |-> v.val,
                 secret_key |-> sk.val,
                 public_key |-> pk.val], pk.d)))))

(***************************************************************************)
(* PreKey                                                                  *)
(***************************************************************************)
\* mutant: the marker counts the two byte strings of the KeyPair
enc_prekey_items(k, e) ==
    ETry(e_array(e, PreKeyLen + 1), LAMBDA e1 :
    ETry(enc_version(k.version, e1), LAMBDA e2 :
    ETry(enc_prekey_id(k.key_id, e2), LAMBDA e3 :
    enc_keypair(k.key_pair, e3))))

enc_prekey(k, e) ==
    CASE k.version = "V1" ->
        ETry(e_array(e, PreKeyLen), LAMBDA e1 :
        ETry(enc_version(k.version, e1), LAMBDA e2 :
        ETry(enc_prekey_id(k.key_id, e2), LAMBDA e3 :
        enc_keypair(k.key_pair, e3))))

\* mutant: the prekey id is read before the array length is checked
dec_prekey_idfirst(d) ==
    Try(d_array(d), LAMBDA n :
    Try(dec_version(n.d), LAMBDA v :
    Try(dec_prekey_id(v.d), LAMBDA id :
    IF n.val # PreKeyLen
    THEN Err("InvalidArrayLen", <<n.val>>, id.d)
    ELSE Try(dec_keypair(id.d), LAMBDA kp :
         Ok([version  |-> v.val,
             key_id   |-> id.val,
             key_pair |-> kp.val], kp.d)))))

dec_prekey(d) ==
    Try(d_array(d), LAMBDA n :
    Try(dec_version(n.d), LAMBDA v :
    CASE v.val = "V1" ->
        IF n.val # PreKeyLen
        THEN Err("InvalidArrayLen", <<n.val>>, v.d)
        ELSE Try(dec_prekey_id(v.d), LAMBDA id :
             Try(dec_keypair(id.d), LAMBDA kp :
             Ok([version  |-> v.val,
                 key_id   |-> id.val,
                 key_pair |-> kp.val], kp.d)))))

(***************************************************************************)
(* PreKeyBundle                                                            *)
(***************************************************************************)
\* mutant: identity key before the prekey's public key
enc_prekey_bundle_swapped(k, e) ==
    ETry(e_array(e, PreKeyBundleLen), LAMBDA e1 :
    ETry(enc_version(k.version, e1), LAMBDA e2 :
    ETry(enc_prekey_id(k.prekey_id, e2), LAMBDA e3 :
    ETry(enc_identity_key(k.identity_key, e3), LAMBDA e4 :
    enc_public_key(k.public_key, e4)))))

enc_prekey_bundle(k, e) ==
    CASE k.version = "V1" ->
        ETry(e_array(e, PreKeyBundleLen), LAMBDA e1 :
        ETry(enc_version(k.version, e1), LAMBDA e2 :
        ETry(enc_prekey_id(k.prekey_id, e2), LAMBDA e3 :
        ETry(enc_public_key(k.public_key, e3), LAMBDA e4 :
        enc_identity_key(k.identity_key, e4)))))

\* mutant: the bundle is held to the three items of the other composites
dec_prekey_bundle_len3(d) ==
    Try(d_array(d), LAMBDA n :
    Try(dec_version(n.d), LAMBDA v :
    IF n.val # PreKeyLen
    THEN Err("InvalidArrayLen", <<n.val>>, v.d)
    ELSE Try(dec_prekey_id(v.d), LAMBDA id :
         Try(dec_public_key(id.d), LAMBDA pk :
         Try(dec_identity_key(pk.d), LAMBDA ik :
         Ok([version      |-> v.val,
             prekey_id    |-> id.val,
             public_key   |-> pk.val,
             identity_key |-> ik.val], ik.d))))))

dec_prekey_bundle(d) ==
    Try(d_array(d), LAMBDA n :
    Try(dec_version(n.d), LAMBDA v :
    CASE v.val = "V1" ->
        IF n.val # PreKeyBundleLen
        THEN Err("InvalidArrayLen", <<n.val>>, v.d)
        ELSE Try(dec_prekey_id(v.d), LAMBDA id :
             Try(dec_public_key(id.d), LAMBDA pk :
             Try(dec_identity_key(pk.d), LAMBDA ik :
             Ok([version      |-> v.val,
                 prekey_id    |-> id.val,
                 public_key   |-> pk.val,
                 identity_key |-> ik.val], ik.d))))))

(***************************************************************************)
(* The key values the callers hand to the encoders.  A value is valid if   *)
(* its key-agreement parts are the conversions of its signing parts, as    *)
(* key generation and the decoders construct them; the structs' fields are *)
(* public, so a caller may also hold one that is not.                      *)
(***************************************************************************)
Fill(n, b) == [i \in 1..n |-> b]

\* two signing secrets with the same seed half and a third with another seed
SkA == Fill(SecretKeyBytes, 17)
SkB == [i \in 1..SecretKeyBytes |-> IF i <= ScalarBytes THEN 17 ELSE 34]
SkC == Fill(SecretKeyBytes, 200)
\* two signing public keys that differ in the sign bit only, and a third
PkA == Fill(PublicKeyBytes, 3)
PkB == [i \in 1..PublicKeyBytes |-> IF i = PublicKeyBytes THEN 131 ELSE 3]
PkC == Fill(PublicKeyBytes, 90)

NewSecretKey(ed) == [sec_edward |-> ed, sec_curve |-> from_ed25519_sk(ed)]
NewPublicKey(ed) == [pub_edward |-> ed, pub_curve |-> from_ed25519_pk(ed)]
\* values whose key-agreement part was set independently
OddSecretKey == [sec_edward |-> SkB, sec_curve |-> Fill(ScalarBytes, 0)]
OddPublicKey == [pub_edward |-> PkC, pub_curve |-> Fill(PublicKeyBytes, 0)]

SecretKeys   == {NewSecretKey(SkA), NewSecretKey(SkC), OddSecretKey}
PublicKeys   == {NewPublicKey(PkA), NewPublicKey(PkB), OddPublicKey}
IdentityKeys == {[public_key |-> NewPublicKey(PkB)], [public_key |-> OddPublicKey]}
PreKeyIds    == {[id |-> 7], [id |-> 65535]}

KeyPairs ==
    {[secret_key |-> NewSecretKey(SkA), public_key |-> NewPublicKey(PkA)],
     [secret_key |-> NewSecretKey(SkC), public_key |-> NewPublicKey(PkB)],
     [secret_key |-> OddSecretKey,      public_key |-> OddPublicKey]}

IdentityKeyPairs ==
    {[version |-> "V1", secret_key |-> k.secret_key,
      public_key |-> [public_key |-> k.public_key]] : k \in KeyPairs}

PreKeys ==
    {[version |-> "V1", key_id |-> [id |-> 7], key_pair |-> k] : k \in KeyPairs}
    \cup
    {[version |-> "V1", key_id |-> [id |-> 65535],
      key_pair |-> [secret_key |-> NewSecretKey(SkC), public_key |-> NewPublicKey(PkA)]]}

PreKeyBundles ==
    {[version |-> "V1", prekey_id |-> [id |-> 7],
      public_key |-> k.public_key, identity_key |-> [public_key |-> NewPublicKey(PkC)]]
        : k \in KeyPairs}
    \cup
    {[version |-> "V1", prekey_id |-> [id |-> 65535],
      public_key |-> NewPublicKey(PkC), identity_key |-> [public_key |-> OddPublicKey]]}

(***************************************************************************)
(* The streams a decoder may be handed by a peer: an optional header       *)
(* (array marker, version tag) followed by up to MaxFields field items.    *)
(***************************************************************************)
ArrayLens == {2, 3, 4}
Tags      == {V1Tag, V1Tag + 1, U16Limit}
FieldItems ==
    {UIntItem(7), BytesItem(SkA), BytesItem(PkA),
     BytesItem(Fill(PublicKeyBytes + 1, 3))}

RECURSIVE Bodies(_)
Bodies(n) ==
    IF n = 0 THEN {<<>>}
    ELSE Bodies(n - 1) \cup
         {Append(b, f) : b \in {x \in Bodies(n - 1) : Len(x) = n - 1}, f \in FieldItems}

Headers ==
    {<<>>} \cup {<<ArrayItem(n)>> : n \in ArrayLens}
           \cup {<<ArrayItem(n), UIntItem(v)>> : n \in ArrayLens, v \in Tags}

Received == {h \o b : h \in Headers, b \in Bodies(MaxFields)}


NoCall ==
    [op |-> "none", ty |-> "none", from |-> 0, to |-> 0, ok |-> FALSE,
     val |-> NoObj, err |-> NoErr, trace |-> <<>>, again |-> FALSE]

\* A stream that may already hold the header of a later format version.
Preloaded == {<<>>, <<ArrayItem(IdentityKeyPairLen), UIntItem(V1Tag + 1)>>}

Init ==
    /\ wire \in Preloaded
    /\ pos = 1
    /\ written = <<>>
    /\ last = NoCall

InitReceived ==
    /\ wire \in Received
    /\ pos = 1
    /\ written = <<>>
    /\ last = NoCall

\* An encode call on the stream: what it wrote stays, also when it failed.
Encode(ty, x, r) ==
    /\ wire' = r.e.out
    /\ written' = IF r.ok
                  THEN Append(written, [ty |-> ty, val |-> x,
                                        from |-> Len(wire) + 1,
                                        to |-> Len(r.e.out) + 1])
                  ELSE written
    /\ UNCHANGED <<pos, last>>

Sink == Encoder(wire, MaxWire - Len(wire))

\* No decoder has been opened yet, and the writer has values left to send.
Writable == last.op = "none" /\ Len(written) < MaxVals

EncSecretKey ==
    /\ Writable
    /\ \E x \in SecretKeys : \E r \in {enc_secret_key(x, Sink)} :
           Encode("SecretKey", x, r)

EncPublicKey ==
    /\ Writable
    /\ \E x \in PublicKeys : \E r \in {enc_public_key(x, Sink)} :
           Encode("PublicKey", x, r)

EncIdentityKey ==
    /\ Writable
    /\ \E x \in IdentityKeys : \E r \in {enc_identity_key(x, Sink)} :
           Encode("IdentityKey", x, r)

EncKeyPair ==
    /\ Writable
    /\ \E x \in KeyPairs : \E r \in {enc_keypair(x, Sink)} :
           Encode("KeyPair", x, r)

EncIdentityKeyPair ==
    /\ Writable
    /\ \E x \in IdentityKeyPairs : \E r \in {enc_identity_keypair(x, Sink)} :
           Encode("IdentityKeyPair", x, r)

EncPreKey ==
    /\ Writable
    /\ \E x \in PreKeys : \E r \in {enc_prekey(x, Sink)} :
           Encode("PreKey", x, r)

EncPreKeyBundle ==
    /\ Writable
    /\ \E x \in PreKeyBundles : \E r \in {enc_prekey_bundle(x, Sink)} :
           Encode("PreKeyBundle", x, r)

\* The n items of the stream from position p on, the end of the stream
\* padded out.
EndOfStream == [t |-> "end", n |-> 0, b |-> <<>>]
Items(p, n) ==
    [k \in 1..n |-> IF p + k - 1 <= Len(wire) THEN wire[p + k - 1] ELSE EndOfStream]

\* The number of items call c looked at: those it consumed, and the end of
\* the stream if it ran into it.
Looked(c) ==
    (c.to - c.from) + (IF c.err.kind = "UnexpectedEOF" THEN 1 ELSE 0)

\* A decode call on the stream at the decoder's position.
Decode(ty, r) ==
    /\ pos' = r.d.pos
    /\ last' = [op |-> "dec", ty |-> ty, from |-> pos, to |-> r.d.pos,
                ok |-> r.ok, val |-> r.val, err |-> r.err,
                trace |-> r.d.trace,
                again |-> /\ last.op = "dec"
                          /\ last.ty = ty
                          /\ Items(pos, Looked(last)) = Items(last.from, Looked(last))]
    /\ UNCHANGED <<wire, written>>

Source == Decoder(wire, pos)

DecSecretKey ==
    \E r \in {dec_secret_key(Source)} : Decode("SecretKey", r)

DecPublicKey ==
    \E r \in {dec_public_key(Source)} : Decode("PublicKey", r)

DecIdentityKey ==
    \E r \in {dec_identity_key(Source)} : Decode("IdentityKey", r)

DecKeyPair ==
    \E r \in {dec_keypair(Source)} : Decode("KeyPair", r)

DecIdentityKeyPair ==
    \E r \in {dec_identity_keypair(Source)} : Decode("IdentityKeyPair", r)

DecPreKey ==
    \E r \in {dec_prekey(Source)} : Decode("PreKey", r)

DecPreKeyBundle ==
    \E r \in {dec_prekey_bundle(Source)} : Decode("PreKeyBundle", r)

Enc ==
    \/ EncSecretKey
    \/ EncPublicKey
    \/ EncIdentityKey
    \/ EncKeyPair
    \/ EncIdentityKeyPair
    \/ EncPreKey
    \/ EncPreKeyBundle

Dec ==
    \/ DecSecretKey
    \/ DecPublicKey
    \/ DecIdentityKey
    \/ DecKeyPair
    \/ DecIdentityKeyPair
    \/ DecPreKey
    \/ DecPreKeyBundle

Next == Enc \/ Dec

NextReceived == Dec

Spec == Init /\ [][Next]_vars

SpecReceived == InitReceived /\ [][NextReceived]_vars

(***************************************************************************)
(* Vocabulary of the properties.                                           *)
(***************************************************************************)
Composite == {"IdentityKeyPair", "PreKey", "PreKeyBundle"}

\* the field count a version 1 composite must declare
Declared(ty) == IF ty = "PreKeyBundle" THEN 4 ELSE 3

ValidSk(k) == k.sec_curve = from_ed25519_sk(k.sec_edward)
ValidPk(k) == k.pub_curve = from_ed25519_pk(k.pub_edward)

\* every key-agreement part of x is the conversion of its signing part
Valid(ty, x) ==
    CASE ty = "SecretKey"       -> ValidSk(x)
      [] ty = "PublicKey"       -> ValidPk(x)
      [] ty = "IdentityKey"     -> ValidPk(x.public_key)
      [] ty = "KeyPair"         -> ValidSk(x.secret_key) /\ ValidPk(x.public_key)
      [] ty = "IdentityKeyPair" -> ValidSk(x.secret_key) /\ ValidPk(x.public_key.public_key)
      [] ty = "PreKey"          -> /\ ValidSk(x.key_pair.secret_key)
                                   /\ ValidPk(x.key_pair.public_key)
      [] ty = "PreKeyBundle"    -> /\ ValidPk(x.public_key)
                                   /\ ValidPk(x.identity_key.public_key)

\* the key-agreement parts of x
CurveParts(ty, x) ==
    CASE ty = "SecretKey"       -> {x.sec_curve}
      [] ty = "PublicKey"       -> {x.pub_curve}
      [] ty = "IdentityKey"     -> {x.public_key.pub_curve}
      [] ty = "KeyPair"         -> {x.secret_key.sec_curve, x.public_key.pub_curve}
      [] ty = "IdentityKeyPair" -> {x.secret_key.sec_curve, x.public_key.public_key.pub_curve}
      [] ty = "PreKey"          -> {x.key_pair.secret_key.sec_curve,
                                    x.key_pair.public_key.pub_curve}
      [] ty = "PreKeyBundle"    -> {x.public_key.pub_curve,
                                    x.identity_key.public_key.pub_curve}

\* the wire layout of x as the interface table gives it
Layout(ty, x) ==
    CASE ty = "SecretKey"       -> <<BytesItem(x.sec_edward)>>
      [] ty = "PublicKey"       -> <<BytesItem(x.pub_edward)>>
      [] ty = "IdentityKey"     -> <<BytesItem(x.public_key.pub_edward)>>
      [] ty = "KeyPair"         -> <<BytesItem(x.secret_key.sec_edward),
                                     BytesItem(x.public_key.pub_edward)>>
      [] ty = "IdentityKeyPair" -> <<ArrayItem(3), UIntItem(1),
                                     BytesItem(x.secret_key.sec_edward),
                                     BytesItem(x.public_key.public_key.pub_edward)>>
      [] ty = "PreKey"          -> <<ArrayItem(3), UIntItem(1), UIntItem(x.key_id.id),
                                     BytesItem(x.key_pair.secret_key.sec_edward),
                                     BytesItem(x.key_pair.public_key.pub_edward)>>
      [] ty = "PreKeyBundle"    -> <<ArrayItem(4), UIntItem(1), UIntItem(x.prekey_id.id),
                                     BytesItem(x.public_key.pub_edward),
                                     BytesItem(x.identity_key.public_key.pub_edward)>>

\* the widths of the byte strings of a layout, in order
Widths(ty) ==
    CASE ty = "SecretKey"       -> <<64>>
      [] ty = "PublicKey"       -> <<32>>
      [] ty = "IdentityKey"     -> <<32>>
      [] ty = "KeyPair"         -> <<64, 32>>
      [] ty = "IdentityKeyPair" -> <<64, 32>>
      [] ty = "PreKey"          -> <<64, 32>>
      [] ty = "PreKeyBundle"    -> <<32, 32>>

\* the reads a decoder makes when nothing fails
ReadOrder(ty) ==
    CASE ty = "SecretKey"       -> <<"bytes">>
      [] ty = "PublicKey"       -> <<"bytes">>
      [] ty = "IdentityKey"     -> <<"bytes">>
      [] ty = "KeyPair"         -> <<"bytes", "bytes">>
      [] ty = "IdentityKeyPair" -> <<"array", "u16", "bytes", "bytes">>
      [] ty = "PreKey"          -> <<"array", "u16", "u16", "bytes", "bytes">>
      [] ty = "PreKeyBundle"    -> <<"array", "u16", "u16", "bytes", "bytes">>

Slice(from, to) == SubSeq(wire, from, to - 1)

BytesOf(seq) == SelectSeq(seq, LAMBDA it : it.t = "bytes")

\* the last call was the decoder of written[i], started where written[i] starts
Reads(i) ==
    /\ last.op = "dec"
    /\ last.ty = written[i].ty
    /\ last.from = written[i].from

(***************************************************************************)
(* C1  Round trip: decoding what the type's encoder wrote for a valid      *)
(* value succeeds and returns that value, equal in every field.            *)
(***************************************************************************)
C1_RoundTrip ==
    \A i \in DOMAIN written :
        (Reads(i) /\ Valid(written[i].ty, written[i].val))
            => (last.ok /\ last.val = written[i].val)

C1_Witness ==
    \E i \in DOMAIN written :
        /\ Reads(i)
        /\ written[i].ty = "PreKey"
        /\ Valid("PreKey", written[i].val)
        /\ written[i].val.key_id.id = 65535
        /\ last.val = written[i].val

(***************************************************************************)
(* C5  As claimed: the count declared by a composite's array marker equals *)
(* the number of data items written after the marker.                      *)
(***************************************************************************)
C5_MarkerCountsItems ==
    \A i \in DOMAIN written :
        written[i].ty \in Composite
            => /\ wire[written[i].from].t = "array"
               /\ wire[written[i].from].n = written[i].to - written[i].from - 1

(***************************************************************************)
(* C5  As amended: the marker declares the composite's field count, the    *)
(* version tag included and a KeyPair counted as one field: 3, 3 and 4.    *)
(* That is the number of data items after the marker for IdentityKeyPair   *)
(* and PreKeyBundle; a PreKey's KeyPair is two byte strings, so four items *)
(* follow its marker of 3.                                                 *)
(***************************************************************************)
C5_MarkerCountsFields ==
    \A i \in DOMAIN written :
        written[i].ty \in Composite
            => /\ wire[written[i].from].t = "array"
               /\ wire[written[i].from].n = Declared(written[i].ty)
               /\ written[i].to - written[i].from - 1 =
                    wire[written[i].from].n + (IF written[i].ty = "PreKey" THEN 1 ELSE 0)

C5_Witness ==
    \E i \in DOMAIN written :
        /\ written[i].ty = "PreKey"
        /\ wire[written[i].from] = ArrayItem(3)
        /\ written[i].to - written[i].from - 1 = 4
        /\ wire[written[i].to - 2].t = "bytes"
        /\ wire[written[i].to - 1].t = "bytes"

(***************************************************************************)
(* C6  Exact wire layout and field order: each encoder writes exactly the  *)
(* items of the interface table, in that order, with byte strings of 64    *)
(* and 32 bytes; an IdentityKey is written as the PublicKey it wraps; a    *)
(* decoder reads the same items in the same order.                         *)
(***************************************************************************)
C6_WireLayout ==
    /\ \A i \in DOMAIN written :
        LET w   == written[i]
            out == Slice(w.from, w.to)
        IN  /\ out = Layout(w.ty, w.val)
            /\ [j \in DOMAIN BytesOf(out) |-> BytesOf(out)[j].n] = Widths(w.ty)
            /\ w.ty = "IdentityKey" => out = Layout("PublicKey", w.val.public_key)
    /\ (last.op = "dec" /\ last.ok)
        => /\ last.trace = ReadOrder(last.ty)
           /\ Slice(last.from, last.to) = Layout(last.ty, last.val)

C6_Witness ==
    \E i \in DOMAIN written :
        /\ Reads(i)
        /\ last.ok
        /\ written[i].ty = "PreKeyBundle"
        /\ written[i].val.prekey_id.id = 7
        /\ wire[written[i].from] = ArrayItem(4)
        /\ wire[written[i].from + 2] = UIntItem(7)

(***************************************************************************)
(* C8  Derived fields: every key a decoder returns has its key-agreement   *)
(* part equal to the conversion of its own signing part, whatever the      *)
(* encoded value held; no encoder writes a key-agreement part.             *)
(***************************************************************************)
C8_Derived ==
    /\ (last.op = "dec" /\ last.ok) => Valid(last.ty, last.val)
    /\ \A i \in DOMAIN written :
        LET w == written[i]
        IN  \A j \in w.from .. (w.to - 1) :
                wire[j].t = "bytes" => wire[j].b \notin CurveParts(w.ty, w.val)

C8_Witness ==
    \E i \in DOMAIN written :
        /\ Reads(i)
        /\ last.ok
        /\ written[i].ty = "KeyPair"
        /\ ~ValidSk(written[i].val.secret_key)
        /\ ~ValidPk(written[i].val.public_key)
        /\ last.val # written[i].val
        /\ last.val.secret_key.sec_edward = written[i].val.secret_key.sec_edward

(***************************************************************************)
(* C9  Determinism: a decoder handed the same items again returns the same *)
(* outcome (the same error, or an equal object, after the same reads and   *)
(* the same consumption); nothing a call leaves behind changes the next.   *)
(***************************************************************************)
Outcome(c) ==
    [ok |-> c.ok, val |-> c.val, err |-> c.err, trace |-> c.trace,
     used |-> c.to - c.from]

C10_ExactConsumption ==
    /\ \A i \in DOMAIN written :
        /\ i > 1 => written[i].from = written[i - 1].to
        /\ Reads(i) =>
            /\ last.ok
            /\ last.to = written[i].to
            /\ pos = written[i].to
            /\ Valid(written[i].ty, written[i].val) => last.val = written[i].val
    /\ (/\ last.op = "dec"
        /\ last.ty \in Composite
        /\ ~last.ok
        /\ last.err.kind \in {"InvalidVersion", "InvalidArrayLen"})
        => /\ last.to = last.from + 2
           /\ pos = last.from + 2
           /\ last.trace = <<"array", "u16">>

C10_Witness ==
    \E i \in DOMAIN written :
        /\ i > 1
        /\ Reads(i)
        /\ last.ok
        /\ written[i - 1].ty # written[i].ty
        /\ written[i].ty = "IdentityKeyPair"

(***************************************************************************)
(* Properties of the decoders on received streams.                         *)
(***************************************************************************)
\* the array marker and a 16-bit version tag can be read at position p
HeaderReadable(p) ==
    /\ p + 1 <= Len(wire)
    /\ wire[p].t = "array"
    /\ wire[p + 1].t = "uint"
    /\ wire[p + 1].n < 65536

(***************************************************************************)
(* C2  Version enforcement: a composite decoder whose input has a readable *)
(* array marker and version tag, the tag not 1, fails with InvalidVersion  *)
(* naming the tag, whatever the declared length and whatever follows.      *)
(***************************************************************************)
C2_VersionEnforced ==
    (/\ last.op = "dec"
     /\ last.ty \in Composite
     /\ HeaderReadable(last.from)
     /\ wire[last.from + 1].n # 1)
        => /\ ~last.ok
           /\ last.val = NoObj
           /\ last.err = [kind |-> "InvalidVersion", arg |-> <<wire[last.from + 1].n>>]

C2_Witness ==
    /\ last.op = "dec"
    /\ last.ty = "PreKeyBundle"
    /\ HeaderReadable(last.from)
    /\ wire[last.from].n = 2
    /\ wire[last.from + 1].n = 2
    /\ Len(wire) = last.from + 1
    /\ last.err.kind = "InvalidVersion"

(***************************************************************************)
(* C3  Array-length enforcement: with version tag 1, a declared count      *)
(* other than 3 (IdentityKeyPair, PreKey) or 4 (PreKeyBundle) fails with   *)
(* InvalidArrayLen carrying the count, before any field after the tag is   *)
(* read; the expected count never gives that error.                        *)
(***************************************************************************)
C3_ArrayLenEnforced ==
    (/\ last.op = "dec"
     /\ last.ty \in Composite
     /\ HeaderReadable(last.from)
     /\ wire[last.from + 1].n = 1)
        => IF wire[last.from].n # Declared(last.ty)
           THEN /\ ~last.ok
                /\ last.err = [kind |-> "InvalidArrayLen", arg |-> <<wire[last.from].n>>]
                /\ last.trace = <<"array", "u16">>
                /\ last.to = last.from + 2
           ELSE last.err.kind # "InvalidArrayLen"

C3_Witness ==
    /\ last.op = "dec"
    /\ last.ty = "IdentityKeyPair"
    /\ Len(wire) >= last.from + 3
    /\ wire[last.from] = ArrayItem(4)
    /\ wire[last.from + 1] = UIntItem(1)
    /\ wire[last.from + 2].t = "bytes" /\ wire[last.from + 2].n = 64
    /\ wire[last.from + 3].t = "bytes" /\ wire[last.from + 3].n = 32
    /\ last.err.kind = "InvalidArrayLen"

(***************************************************************************)
(* What one step of a decoder does with the stream, told from the layout   *)
(* alone: the k-th read of decoder ty, started at position p, meets the    *)
(* item at p + k - 1 (or the end of the stream).                           *)
(***************************************************************************)
\* the width the k-th read of ty requires, when it reads a byte string
WidthAt(ty, k) == Widths(ty)[k - (Len(ReadOrder(ty)) - Len(Widths(ty)))]

\* the error of the k-th step, NoErr if the step succeeds
StepErr(ty, p, k) ==
    LET it   == Items(p, k)[k]
        read == ReadOrder(ty)[k]
        fail(kind, arg) == [kind |-> kind, arg |-> arg]
    IN  IF it.t = "end" THEN fail("UnexpectedEOF", <<>>)
        ELSE IF read = "array"
             THEN IF it.t = "array" THEN NoErr ELSE fail("UnexpectedType", <<>>)
        ELSE IF read = "u16"
             THEN IF it.t # "uint" \/ it.n >= 65536 THEN fail("UnexpectedType", <<>>)
                  ELSE IF ty \in Composite /\ k = 2
                       THEN IF it.n # 1 THEN fail("InvalidVersion", <<it.n>>)
                            ELSE IF wire[p].n # Declared(ty)
                                 THEN fail("InvalidArrayLen", <<wire[p].n>>)
                                 ELSE NoErr
                       ELSE NoErr
        ELSE IF it.t # "bytes" THEN fail("UnexpectedType", <<>>)
             ELSE IF it.n # WidthAt(ty, k)
                  THEN fail("InvalidLength", <<WidthAt(ty, k), it.n>>)
                  ELSE NoErr

\* the steps of ty that fail on the stream at p, each taken alone
BadSteps(ty, p) ==
    {k \in 1..Len(ReadOrder(ty)) : StepErr(ty, p, k) # NoErr}

\* the first of them
FirstBad(ty, p) ==
    CHOOSE k \in BadSteps(ty, p) : \A j \in BadSteps(ty, p) : k <= j

(***************************************************************************)
(* C4  Length enforcement: a decoder that reaches a key field holding a    *)
(* byte string of another length than the key's (64 secret, 32 public)     *)
(* fails with the length-mismatch error, the top-level key decoders and    *)
(* every key field nested in a composite alike; a decode succeeds only if  *)
(* every key field has exactly its width.                                  *)
(***************************************************************************)
C4_LengthEnforced ==
    last.op = "dec" =>
        /\ \A k \in 1..Len(ReadOrder(last.ty)) :
            (/\ ReadOrder(last.ty)[k] = "bytes"
             /\ \A j \in 1..(k - 1) : StepErr(last.ty, last.from, j) = NoErr
             /\ Items(last.from, k)[k].t = "bytes"
             /\ Items(last.from, k)[k].n # WidthAt(last.ty, k))
                => /\ ~last.ok
                   /\ last.val = NoObj
                   /\ last.err = [kind |-> "InvalidLength",
                                  arg  |-> <<WidthAt(last.ty, k),
                                             Items(last.from, k)[k].n>>]
        /\ last.ok =>
            LET got == BytesOf(Slice(last.from, last.to))
            IN  [j \in DOMAIN got |-> Len(got[j].b)] = Widths(last.ty)

C4_Witness ==
    /\ last.op = "dec"
    /\ last.ty = "PreKey"
    /\ Len(wire) = last.from + 4
    /\ wire[last.from] = ArrayItem(3)
    /\ wire[last.from + 1] = UIntItem(1)
    /\ wire[last.from + 3].t = "bytes" /\ wire[last.from + 3].n = 64
    /\ wire[last.from + 4].t = "bytes" /\ wire[last.from + 4].n = 33
    /\ last.err = [kind |-> "InvalidLength", arg |-> <<32, 33>>]

(***************************************************************************)
(* C7  All or nothing, first error first: a decoder makes its reads in the *)
(* layout's order; at the first step that fails it stops, returns that     *)
(* step's error and no object, having made no later read; it returns an    *)
(* object only if every step succeeded, each field taken from the stream.  *)
(***************************************************************************)
C7_AllOrNothing ==
    last.op = "dec" =>
        IF BadSteps(last.ty, last.from) = {}
        THEN /\ last.ok
             /\ last.err = NoErr
             /\ last.val # NoObj
             /\ last.trace = ReadOrder(last.ty)
             /\ Layout(last.ty, last.val) = Slice(last.from, last.to)
        ELSE LET k == FirstBad(last.ty, last.from)
             IN  /\ ~last.ok
                 /\ last.val = NoObj
                 /\ last.err = StepErr(last.ty, last.from, k)
                 /\ last.trace = SubSeq(ReadOrder(last.ty), 1, k)

C7_Witness ==
    /\ last.op = "dec"
    /\ last.ty = "PreKeyBundle"
    /\ Len(wire) = last.from + 4
    /\ wire[last.from] = ArrayItem(4)
    /\ wire[last.from + 1] = UIntItem(1)
    /\ wire[last.from + 3].t = "uint"
    /\ wire[last.from + 4].t = "bytes" /\ wire[last.from + 4].n = 33
    /\ last.err.kind = "UnexpectedType"
    /\ last.trace = <<"array", "u16", "u16", "bytes">>
    /\ last.val = NoObj

=============================================================================
